---- MODULE Spec2Model ----
(***************************************************************************)
(* Model of scripts/run_benchmarks.py: the benchmark orchestrator.         *)
(*                                                                         *)
(*   Target.command      - placeholder substitution in an argv template    *)
(*   ensure_*_built      - per-toolchain build steps run by main            *)
(*   run_measurement     - one helper process per (target, depth) with a    *)
(*                         temporary result file as the hand-off            *)
(*   format_table        - the aligned three-column text table              *)
(*   main                - builds, the depth x target loop, the print       *)
(*                                                                         *)
(* Python strings are TLA+ strings (\o, Len and SubSeq act on them).       *)
(* Python/JSON values that may differ in type are tagged records, see      *)
(* Num and Str.  Non-ASCII text of the source is transliterated one ASCII  *)
(* letter per code point, so that len() is preserved.                      *)
(***************************************************************************)
EXTENDS Integers, Sequences, FiniteSets, TLC

VARIABLES
    \* ---- Target.command called on its own (SpecCommand)
    template,     \* self.template of the Target under call
    template0,    \* the template as it was at construction
    cmdDepth,     \* the depth argument of the last call
    cmd,          \* the list the last call returned
    cmdCalls,     \* number of calls made
    \* ---- format_table called on its own (SpecTable)
    rows,         \* the argument of format_table
    table,        \* what the call returned: [err, out]
    tableCalls,   \* number of calls made
    \* ---- one orchestration session (Spec): main
    depths,       \* args.depths
    targets,      \* the targets list of main
    builds,       \* the build commands main runs, in call order
    pc,           \* where main is: build, building, launch, helper, render, exited
    bi,           \* index in builds of the build command at hand
    di,           \* index in depths of the outer loop
    ti,           \* index in targets of the inner loop
    children,     \* child processes started and not yet waited for
    disk,         \* temporary files that exist: path -> content
    json_file,    \* run_measurement's json_file while it runs, else NoPath
    built,        \* build commands that completed with status 0, in order
    requests,     \* run_measurement calls made so far, in order
    usedPaths,    \* paths allocated by the calls that have ended
    helperLog,    \* what the helper of the latest call did, and the unlink
    results,      \* the results list of main
    stdout,       \* what main printed, one element per print
    exit_code,    \* the process exit status, Running while it runs
    error         \* the exception that ended the process, NoError if none

cmdVars == <<template, template0, cmdDepth, cmd, cmdCalls>>
tblVars == <<rows, table, tableCalls>>
mainVars == <<depths, targets, builds, pc, bi, di, ti, children, disk,
              json_file, built, requests, usedPaths, helperLog, results,
              stdout, exit_code, error>>
vars == <<cmdVars, tblVars, mainVars>>

-----------------------------------------------------------------------------
(* Bounds of the model *)

MaxTemplateLen == 3
MaxCalls == 2
MaxRows == 2
MaxDepths == 2
MaxTargets == 2

-----------------------------------------------------------------------------
(* Python values *)

Num(n) == [t |-> "number", v |-> n]
Str(s) == [t |-> "string", s |-> s]

Digit(d) ==
    CASE d = 0 -> "0" [] d = 1 -> "1" [] d = 2 -> "2" [] d = 3 -> "3"
      [] d = 4 -> "4" [] d = 5 -> "5" [] d = 6 -> "6" [] d = 7 -> "7"
      [] d = 8 -> "8" [] d = 9 -> "9"

\* str(n) for a Python int: the decimal digits, "-" first when negative.
RECURSIVE str(_)
str(n) ==
    IF n < 0 THEN "-" \o str(-n)
    ELSE IF n < 10 THEN Digit(n)
    ELSE str(n \div 10) \o Digit(n % 10)

-----------------------------------------------------------------------------
(* Target.command *)

Placeholder == "{n}"

\* Variant: substitution inside tokens, as token.replace("{n}", str(depth))
\* would do.
SubstTokenReplace(token, depth) ==
    IF token = Placeholder THEN str(depth)
    ELSE IF token = "x{n}" THEN "x" \o str(depth)
    ELSE token

\* One iteration of the loop body: the token appended for `token`.
SubstToken(token, depth) ==
    IF token = Placeholder THEN str(depth) ELSE token

\* The loop over self.template, appending to cmd.
RECURSIVE command(_, _)
command(tpl, depth) ==
    IF tpl = <<>> THEN <<>>
    ELSE <<SubstToken(Head(tpl), depth)>> \o command(Tail(tpl), depth)

\* Tokens templates are built from: the placeholder, plain tokens, and tokens
\* that contain the placeholder text without being equal to it.
Tokens == {"{n}", "./bin", "x{n}", "16"}

CmdDepths == {0, 7, 16, 105, -3}

RECURSIVE SeqsUpTo(_, _)
SeqsUpTo(S, n) ==
    IF n = 0 THEN {<<>>}
    ELSE LET shorter == SeqsUpTo(S, n - 1)
         IN  shorter \cup {Append(s, x) : s \in shorter, x \in S}

\* target.command(depth): returns the new list; self.template is only read.
CallCommand ==
    /\ cmdCalls < MaxCalls
    /\ \E depth \in CmdDepths :
          /\ cmdDepth' = depth
          /\ cmd' = command(template, depth)
    /\ cmdCalls' = cmdCalls + 1
    /\ UNCHANGED <<template, template0>>

-----------------------------------------------------------------------------
(* format_table *)

\* A non-negative JSON/Python float, held as its integer part and its
\* fraction in thousandths (Float(12, 300) is 12.3).
Float(i, f) == [t |-> "float", i |-> i, f |-> f]

\* f"{x:.2f}" for a float: the fraction rounded to hundredths (ties to even,
\* as for a value that is exact in binary) with the carry into the integer
\* part, two decimals always.
Fmt2fFloat(i, f) ==
    LET q == f \div 10
        r == f % 10
        h == IF r > 5 \/ (r = 5 /\ q % 2 = 1) THEN q + 1 ELSE q
        ip == IF h = 100 THEN i + 1 ELSE i
        hh == IF h = 100 THEN 0 ELSE h
    IN  str(ip) \o "." \o Digit(hh \div 10) \o Digit(hh % 10)

\* f"{row['peak_mb']:.2f}" for a numeric value (a float or an int).
Fmt2f(val) ==
    IF val.t = "float" THEN Fmt2fFloat(val.i, val.f) ELSE str(val.v) \o ".00"

\* f"{row['depth']}"
FmtPlain(val) ==
    CASE val.t = "number" -> str(val.v)
      [] val.t = "string" -> val.s
      [] val.t = "float"  -> str(val.i) \o "." \o str(val.f)

\* headers: "语言", "树深度", "峰值 RSS (MB)" (2, 3 and 11 code points).
headers == <<"YY", "SSD", "FZ RSS (MB)">>

\* The exception building one element of data_rows raises, or "none".
RowError(row) ==
    IF "language" \notin DOMAIN row THEN "KeyError"
    ELSE IF "depth" \notin DOMAIN row THEN "KeyError"
    ELSE IF "peak_mb" \notin DOMAIN row THEN "KeyError"
    ELSE IF row.peak_mb.t = "string" THEN "ValueError"
    ELSE IF row.language.t # "string" THEN "TypeError"
    ELSE "none"

\* The first exception of the data_rows comprehension, in row order.
RECURSIVE RowsError(_)
RowsError(rs) ==
    IF rs = <<>> THEN "none"
    ELSE IF RowError(Head(rs)) # "none" THEN RowError(Head(rs))
    ELSE RowsError(Tail(rs))

\* One element of data_rows.
DataRow(row) == <<row.language.s, FmtPlain(row.depth), Fmt2f(row.peak_mb)>>

\* Variant: the width is assigned the cell's length instead of the maximum.
MaxKeepsLast(a, b) == b

Max(a, b) == IF a >= b THEN a ELSE b

\* The widths loop: widths[idx] = max(widths[idx], len(cell)) over data_rows.
RECURSIVE Widths(_, _)
Widths(w, drs) ==
    IF drs = <<>> THEN w
    ELSE Widths([idx \in 1..Len(w) |-> Max(w[idx], Len(Head(drs)[idx]))],
                Tail(drs))

RECURSIVE Repeat(_, _)
Repeat(ch, n) == IF n <= 0 THEN "" ELSE ch \o Repeat(ch, n - 1)

\* str.ljust(width)
ljust(value, width) ==
    IF Len(value) >= width THEN value
    ELSE value \o Repeat(" ", width - Len(value))

\* sep.join(parts)
RECURSIVE Join(_, _)
Join(sep, parts) ==
    IF parts = <<>> THEN ""
    ELSE IF Len(parts) = 1 THEN parts[1]
    ELSE parts[1] \o sep \o Join(sep, Tail(parts))

\* The inner fmt(values).
fmt(values, widths) ==
    Join(" | ", [i \in 1..Len(values) |-> ljust(values[i], widths[i])])

\* "-+-".join("-" * width for width in widths)
Separator(widths) ==
    Join("-+-", [i \in 1..Len(widths) |-> Repeat("-", widths[i])])

\* format_table(rows): the exception it raises, or the text it returns.
format_table(rs) ==
    IF RowsError(rs) # "none" THEN [err |-> RowsError(rs), out |-> ""]
    ELSE LET data_rows == [i \in 1..Len(rs) |-> DataRow(rs[i])]
             widths == Widths([i \in 1..Len(headers) |-> Len(headers[i])],
                              data_rows)
             lines == <<fmt(headers, widths), Separator(widths)>>
                      \o [i \in 1..Len(rs) |-> fmt(data_rows[i], widths)]
         IN  [err |-> "none", out |-> Join("\n", lines)]

\* Rows format_table is called with: records as run_measurement returns
\* them, among them cells wider than every header, a record without peak_mb
\* and one whose peak_mb is a JSON string.
TableRows ==
    { [language |-> Str("Go"), depth |-> Num(10), peak_mb |-> Float(5, 0)],
      [language |-> Str("Rust"), depth |-> Num(16), peak_mb |-> Float(12, 300)],
      [language |-> Str("C++ unique_ptr"), depth |-> Num(1000),
       peak_mb |-> Float(123456789, 123), samples |-> Num(7)],
      [language |-> Str(".NET"), depth |-> Num(24), peak_mb |-> Float(123, 996)],
      [language |-> Str("Java"), depth |-> Num(10), peak_mb |-> Num(7)],
      [language |-> Str("Go"), depth |-> Num(16), samples |-> Num(7)],
      [language |-> Str("Go"), depth |-> Num(24), peak_mb |-> Str("n/a")] }

NoTable == [err |-> "not called", out |-> ""]

\* format_table(rows) called by a client.
CallFormatTable ==
    /\ tableCalls < MaxCalls
    /\ table' = format_table(rows)
    /\ tableCalls' = tableCalls + 1
    /\ UNCHANGED rows

-----------------------------------------------------------------------------
(* main: the targets, the build commands *)

\* The targets list of main (entries of the source, commented out or not):
\* name, cwd under ROOT, invocation template.
Registry ==
    << [name |-> "Node.js", cwd |-> "nodejs",
        template |-> <<"node", "main.js", "{n}">>],
       [name |-> "Rust", cwd |-> "rust",
        template |-> <<"./target/release/rust", "{n}">>],
       [name |-> ".NET", cwd |-> "dotnet",
        template |-> <<"./bin/Release/net10.0/linux-x64/publish/BinaryTrees",
                       "{n}">>] >>

\* The subprocess.run calls of the ensure_*_built functions, in the order
\* main calls them: the function, its cwd under ROOT, the tool.
BuildCommands ==
    << [fn |-> "ensure_rust_built", cwd |-> "rust", tool |-> "cargo build"],
       [fn |-> "ensure_dotnet_built", cwd |-> "dotnet",
        tool |-> "dotnet publish"] >>

\* The exception of a build command that exits non-zero: check = True raises
\* CalledProcessError, which ensure_rust_built turns into a RuntimeError
\* carrying the captured output.
BuildError(b) ==
    IF b.fn = "ensure_rust_built" THEN "RuntimeError: cargo build --release"
    ELSE "CalledProcessError"

\* The build commands of a session: main calls the ensure_*_built function
\* of every target it lists (as the source does for .NET).
BuildsFor(ts) ==
    SelectSeq(BuildCommands,
              LAMBDA b : \E k \in 1..Len(ts) : ts[k].cwd = b.cwd)

\* The sub-list of the registry at the positions in idx (declaration order).
RECURSIVE Pick(_, _)
Pick(idx, k) ==
    IF k > Len(Registry) THEN <<>>
    ELSE (IF k \in idx THEN <<Registry[k]>> ELSE <<>>) \o Pick(idx, k + 1)

TargetLists ==
    { Pick(idx, 1) : idx \in { i \in SUBSET (1..Len(Registry)) :
                                 i # {} /\ Cardinality(i) <= MaxTargets } }

\* --depths: type int, nargs "+" (one value at least), duplicates and any
\* order allowed.
DepthValues == {10, 16}
DepthLists == SeqsUpTo(DepthValues, MaxDepths) \ {<<>>}

-----------------------------------------------------------------------------
(* run_measurement: the temporary file, the helper, the result *)

TmpNames == {"/tmp/tmpa", "/tmp/tmpb"}
NoPath == "none"
Running == "running"
\* Exit statuses: return 0 from main, 1 for an uncaught exception.
ExitSuccess == "0"
ExitFailure == "1"
NoError == [kind |-> "none", phase |-> "none"]
NoLog == [rc |-> 0, effect |-> "none", content |-> [json |-> "none"],
          unlink |-> "none"]

\* File contents: text that is no JSON (the empty file included), and JSON
\* texts by the value they hold.
EmptyFile == [json |-> "invalid", text |-> ""]
JsonArray == [json |-> "array"]
JsonObject(fields) == [json |-> "object", fields |-> fields]

\* Objects a helper may write: one with the required peak_mb, with fields
\* named language and depth of its own and a further field; one without
\* peak_mb.
HelperObjects ==
    { [peak_mb |-> Float(123, 450), language |-> Str("bogus"),
       depth |-> Str("deep"), samples |-> Num(7)],
      [samples |-> Num(7)] }

\* What a helper process may have done to the result file when it exits.
HelperEffects ==
    {[effect |-> "untouched"], [effect |-> "removed"]}
    \cup {[effect |-> "wrote", content |-> c] :
            c \in {JsonArray} \cup {JsonObject(o) : o \in HelperObjects}}

\* tempfile.NamedTemporaryFile(delete = False): a name that no existing file
\* has (O_EXCL); the names are drawn at random.
TmpCandidates(d) == TmpNames \ DOMAIN d

\* The file system with `path` holding `content`.
WriteFile(d, path, content) ==
    [q \in DOMAIN d \cup {path} |-> IF q = path THEN content ELSE d[q]]

\* The file system without `path`.
RemoveFile(d, path) == [q \in DOMAIN d \ {path} |-> d[q]]

\* Path.unlink(missing_ok): the file system after it and the exception.
unlink(d, path, missing_ok) ==
    IF path \in DOMAIN d THEN [disk |-> RemoveFile(d, path), err |-> "none"]
    ELSE IF missing_ok THEN [disk |-> d, err |-> "none"]
    ELSE [disk |-> d, err |-> "FileNotFoundError: json_file"]

\* Variant: the unlink is left out.
UnlinkResultKeepsFile(d, path) == [disk |-> d, err |-> "none"]

\* json_file.unlink(missing_ok = True)
UnlinkResult(d, path) == unlink(d, path, TRUE)

\* json.loads(raw): the exception (text that is no JSON, the empty text
\* included), or the value.
json_loads(raw) ==
    IF raw.json = "invalid" THEN [err |-> "JSONDecodeError"]
    ELSE [err |-> "none", value |-> raw]

\* Variant: data.setdefault("language", ...); data.setdefault("depth", ...)
DecorateSetDefault(fields, name, depth) ==
    [k \in DOMAIN fields \cup {"language", "depth"} |->
        IF k \in DOMAIN fields THEN fields[k]
        ELSE IF k = "language" THEN Str(name)
        ELSE Num(depth)]

\* data["language"] = target.name; data["depth"] = depth, on a dict.
Decorate(fields, name, depth) ==
    [k \in DOMAIN fields \cup {"language", "depth"} |->
        IF k = "language" THEN Str(name)
        ELSE IF k = "depth" THEN Num(depth)
        ELSE fields[k]]

\* The helper's argv: python, the script, the options, "--", the command.
HelperArgv(target, depth, path) ==
    <<"python", "scripts/measure_memory.py", "--cwd", target.cwd,
      "--json-file", path, "--">> \o command(target.template, depth)

\* Variant: subprocess.Popen, which returns while the child runs.
WaitChildNoWait(procs, proc) == procs

\* subprocess.run returns (or raises) only when the child has exited.
WaitChild(procs, proc) == procs \ {proc}

\* The result file of the helper after its effect.
AfterHelper(d, path, eff) ==
    CASE eff.effect = "untouched" -> d
      [] eff.effect = "removed" -> RemoveFile(d, path)
      [] eff.effect = "wrote" -> WriteFile(d, path, eff.content)

\* When something other than the session removes the result file of a
\* request whose helper wrote it: never, between exists() and read_text(), or
\* between read_text() and unlink().
Races == {"none", "before read", "before unlink"}

\* run_measurement from the return of subprocess.run on: the exception it
\* raises or the record it returns, the file system, and the unlink made.
\* The text read is stripped and parsed after the unlink.
FinishMeasurement(d, path, target, depth, rc, race) ==
    IF rc # 0 THEN
        [err |-> "CalledProcessError", disk |-> d, unlink |-> "none"]
    ELSE IF path \notin DOMAIN d THEN
        [err |-> "RuntimeError: result file not written", disk |-> d,
         unlink |-> "none"]
    ELSE IF race = "before read" THEN
        [err |-> "FileNotFoundError: read_text", disk |-> RemoveFile(d, path),
         unlink |-> "none"]
    ELSE LET raw == d[path]
             d1 == IF race = "before unlink" THEN RemoveFile(d, path) ELSE d
             u == UnlinkResult(d1, path)
             how == IF race = "before unlink" THEN "already gone"
                    ELSE "removed"
             data == json_loads(raw)
         IN  IF u.err # "none" THEN
                 [err |-> u.err, disk |-> u.disk, unlink |-> how]
             ELSE IF data.err # "none" THEN
                 [err |-> data.err, disk |-> u.disk, unlink |-> how]
             ELSE IF data.value.json # "object" THEN
                 [err |-> "TypeError", disk |-> u.disk, unlink |-> how]
             ELSE [err |-> "none", disk |-> u.disk, unlink |-> how,
                   value |-> Decorate(data.value.fields, target.name, depth)]

-----------------------------------------------------------------------------
(* main *)

\* Variant: results.insert(0, measurement)
AppendResultFront(rs, measurement) == <<measurement>> \o rs

\* results.append(measurement)
AppendResult(rs, measurement) == Append(rs, measurement)

\* The loop indices after one inner iteration: the next target, or the next
\* depth with the first target.
NextIndex(d, t, nTargets) ==
    IF t < nTargets THEN [di |-> d, ti |-> t + 1] ELSE [di |-> d + 1, ti |-> 1]

\* Variant: the measurements start after the first build command.
AfterBuildSkipsRest(b, nBuilds) == "launch"

\* Where main goes when a build command has exited with status 0.
AfterBuild(b, nBuilds) == IF b < nBuilds THEN "build" ELSE "launch"

\* An uncaught exception ends the process with status 1.
Raise(kind, phase) ==
    /\ pc' = "exited"
    /\ exit_code' = ExitFailure
    /\ error' = [kind |-> kind, phase |-> phase]

Init ==
    /\ depths \in DepthLists
    /\ targets \in TargetLists
    /\ builds = BuildsFor(targets)
    /\ pc = IF BuildsFor(targets) = <<>> THEN "launch" ELSE "build"
    /\ bi = 1
    /\ di = 1
    /\ ti = 1
    /\ children = {}
    /\ disk = <<>>
    /\ json_file = NoPath
    /\ built = <<>>
    /\ requests = <<>>
    /\ usedPaths = {}
    /\ helperLog = NoLog
    /\ results = <<>>
    /\ stdout = <<>>
    /\ exit_code = Running
    /\ error = NoError
    /\ template = <<>>
    /\ template0 = <<>>
    /\ cmdDepth = 0
    /\ cmd = <<>>
    /\ cmdCalls = 0
    /\ rows = <<>>
    /\ table = NoTable
    /\ tableCalls = 0

\* An ensure_*_built function reaches a subprocess.run(..., check = True):
\* the tool starts, or cannot be started.
StartBuild ==
    /\ pc = "build"
    /\ \E launched \in BOOLEAN :
          IF launched
          THEN /\ children' = children
                     \cup {[kind |-> "build", id |-> bi, argv |-> <<builds[bi].tool>>]}
               /\ pc' = "building"
               /\ UNCHANGED <<exit_code, error>>
          ELSE /\ Raise("FileNotFoundError: tool", "build")
               /\ UNCHANGED children
    /\ UNCHANGED <<depths, targets, builds, bi, di, ti, disk, json_file,
                   built, requests, usedPaths, helperLog, results, stdout>>

\* The build tool exits; check = True raises on a non-zero status.
BuildExit ==
    /\ pc = "building"
    /\ children' = WaitChild(children,
                    [kind |-> "build", id |-> bi, argv |-> <<builds[bi].tool>>])
    /\ \E rc \in {0, 1} :
          IF rc = 0
          THEN /\ built' = Append(built, builds[bi])
               /\ bi' = bi + 1
               /\ pc' = AfterBuild(bi, Len(builds))
               /\ UNCHANGED <<exit_code, error>>
          ELSE /\ Raise(BuildError(builds[bi]), "build")
               /\ UNCHANGED <<built, bi>>
    /\ UNCHANGED <<depths, targets, builds, di, ti, disk, json_file,
                   requests, usedPaths, helperLog, results, stdout>>

\* run_measurement(target, depth, args.python) up to subprocess.run: the
\* temporary file is created (empty), the helper starts or cannot be started.
Launch ==
    /\ pc = "launch"
    /\ \E path \in TmpCandidates(disk), launched \in BOOLEAN :
          /\ disk' = WriteFile(disk, path, EmptyFile)
          /\ requests' = Append(requests,
                [language |-> targets[ti].name, depth |-> depths[di]])
          /\ IF launched
             THEN /\ children' = children
                        \cup {[kind |-> "helper", id |-> Len(requests) + 1,
                               argv |-> HelperArgv(targets[ti], depths[di],
                                                   path)]}
                  /\ json_file' = path
                  /\ pc' = "helper"
                  /\ UNCHANGED <<usedPaths, exit_code, error>>
             ELSE /\ Raise("FileNotFoundError: python", "measure")
                  /\ usedPaths' = usedPaths \cup {path}
                  /\ UNCHANGED <<children, json_file>>
    /\ helperLog' = NoLog
    /\ UNCHANGED <<depths, targets, builds, bi, di, ti, built, results, stdout>>

\* The helper exits and run_measurement runs to its end; on a return main
\* appends the result and goes on to the next pair, or to the print.
HelperExit ==
    /\ pc = "helper"
    /\ children' = WaitChild(children,
                    [kind |-> "helper", id |-> Len(requests),
                     argv |-> HelperArgv(targets[ti], depths[di], json_file)])
    /\ \E rc \in {0, 1}, eff \in HelperEffects, race \in Races :
          \* a helper that fails leaves the file as it is (its effect is not
          \* read then); a race is told apart only on a file that was written
          /\ rc # 0 => eff.effect = "untouched"
          /\ race # "none" => rc = 0 /\ eff.effect = "wrote"
          /\ LET fin == FinishMeasurement(AfterHelper(disk, json_file, eff),
                         json_file, targets[ti], depths[di], rc, race)
                 nxt == NextIndex(di, ti, Len(targets))
             IN
              /\ disk' = fin.disk
              /\ helperLog' =
                    [rc |-> rc, effect |-> eff.effect,
                     content |-> IF eff.effect = "wrote" THEN eff.content
                                 ELSE [json |-> "none"],
                     unlink |-> fin.unlink]
              /\ IF fin.err = "none"
                 THEN /\ results' = AppendResult(results, fin.value)
                      /\ di' = nxt.di
                      /\ ti' = nxt.ti
                      /\ pc' = IF nxt.di > Len(depths) THEN "render"
                               ELSE "launch"
                      /\ UNCHANGED <<exit_code, error>>
                 ELSE /\ Raise(fin.err, "measure")
                      /\ UNCHANGED <<results, di, ti>>
    /\ usedPaths' = usedPaths \cup {json_file}
    /\ json_file' = NoPath
    /\ UNCHANGED <<depths, targets, builds, bi, built, requests, stdout>>

\* print(format_table(results)); return 0
Render ==
    /\ pc = "render"
    /\ LET t == format_table(results)
       IN  IF t.err = "none"
           THEN /\ stdout' = Append(stdout, t.out)
                /\ pc' = "exited"
                /\ exit_code' = ExitSuccess
                /\ UNCHANGED error
           ELSE /\ Raise(t.err, "render")
                /\ UNCHANGED stdout
    /\ UNCHANGED <<depths, targets, builds, bi, di, ti, children, disk,
                   json_file, built, requests, usedPaths, helperLog, results>>

Next ==
    \/ StartBuild /\ UNCHANGED <<cmdVars, tblVars>>
    \/ BuildExit /\ UNCHANGED <<cmdVars, tblVars>>
    \/ Launch /\ UNCHANGED <<cmdVars, tblVars>>
    \/ HelperExit /\ UNCHANGED <<cmdVars, tblVars>>
    \/ Render /\ UNCHANGED <<cmdVars, tblVars>>

Spec == Init /\ [][Next]_vars

-----------------------------------------------------------------------------
(* Specifications of the two pure functions called on their own *)

InitCommand ==
    /\ template \in SeqsUpTo(Tokens, MaxTemplateLen)
    /\ template0 = template
    /\ cmdDepth = 0
    /\ cmd = <<>>
    /\ cmdCalls = 0
    /\ rows = <<>>
    /\ table = NoTable
    /\ tableCalls = 0
    /\ depths = <<>>
    /\ targets = <<>>
    /\ builds = <<>>
    /\ pc = "exited"
    /\ bi = 1
    /\ di = 1
    /\ ti = 1
    /\ children = {}
    /\ disk = <<>>
    /\ json_file = NoPath
    /\ built = <<>>
    /\ requests = <<>>
    /\ usedPaths = {}
    /\ helperLog = NoLog
    /\ results = <<>>
    /\ stdout = <<>>
    /\ exit_code = Running
    /\ error = NoError

NextCommand == CallCommand /\ UNCHANGED <<tblVars, mainVars>>
SpecCommand == InitCommand /\ [][NextCommand]_vars

InitTable ==
    /\ rows \in SeqsUpTo(TableRows, MaxRows)
    /\ table = NoTable
    /\ tableCalls = 0
    /\ template = <<>>
    /\ template0 = <<>>
    /\ cmdDepth = 0
    /\ cmd = <<>>
    /\ cmdCalls = 0
    /\ depths = <<>>
    /\ targets = <<>>
    /\ builds = <<>>
    /\ pc = "exited"
    /\ bi = 1
    /\ di = 1
    /\ ti = 1
    /\ children = {}
    /\ disk = <<>>
    /\ json_file = NoPath
    /\ built = <<>>
    /\ requests = <<>>
    /\ usedPaths = {}
    /\ helperLog = NoLog
    /\ results = <<>>
    /\ stdout = <<>>
    /\ exit_code = Running
    /\ error = NoError

NextTable == CallFormatTable /\ UNCHANGED <<cmdVars, mainVars>>
SpecTable == InitTable /\ [][NextTable]_vars

-----------------------------------------------------------------------------
(* Properties of Target.command (SpecCommand) *)

DigitValue(c) ==
    CASE c = "0" -> 0 [] c = "1" -> 1 [] c = "2" -> 2 [] c = "3" -> 3
      [] c = "4" -> 4 [] c = "5" -> 5 [] c = "6" -> 6 [] c = "7" -> 7
      [] c = "8" -> 8 [] c = "9" -> 9 [] OTHER -> -1

IsDigits(s) ==
    /\ Len(s) >= 1
    /\ \A i \in 1..Len(s) : DigitValue(SubSeq(s, i, i)) >= 0
    /\ Len(s) > 1 => SubSeq(s, 1, 1) # "0"

RECURSIVE DigitsValue(_)
DigitsValue(s) ==
    IF Len(s) = 1 THEN DigitValue(s)
    ELSE 10 * DigitsValue(SubSeq(s, 1, Len(s) - 1))
         + DigitValue(SubSeq(s, Len(s), Len(s)))

\* s is the decimal string of the integer n.
IsDecimalOf(s, n) ==
    IF n < 0
    THEN /\ Len(s) >= 2
         /\ SubSeq(s, 1, 1) = "-"
         /\ IsDigits(SubSeq(s, 2, Len(s)))
         /\ DigitsValue(SubSeq(s, 2, Len(s))) = -n
    ELSE IsDigits(s) /\ DigitsValue(s) = n

\* C7: command(D) returns a list as long as the template in which every token
\* equal to "{n}" is replaced by the decimal string of D and every other token
\* is the template's token at that position; the template is not modified.
C7_CommandSubstitutes ==
    cmdCalls > 0 =>
        /\ template = template0
        /\ Len(cmd) = Len(template0)
        /\ \A i \in 1..Len(template0) :
              IF template0[i] = "{n}" THEN IsDecimalOf(cmd[i], cmdDepth)
              ELSE cmd[i] = template0[i]

\* A call on a template with two placeholders around a token that only
\* contains the placeholder text, at a three-digit depth.
C7_Witness ==
    /\ cmdCalls > 0
    /\ template0 = <<"{n}", "x{n}", "{n}">>
    /\ cmdDepth = 105
    /\ cmd = <<"105", "x{n}", "105">>

-----------------------------------------------------------------------------
(* Properties of format_table (SpecTable) *)

\* The lines of a text: the pieces between its "\n".
RECURSIVE SplitLines(_)
SplitLines(s) ==
    IF \E i \in 1..Len(s) : SubSeq(s, i, i) = "\n"
    THEN LET i == CHOOSE j \in 1..Len(s) :
                     /\ SubSeq(s, j, j) = "\n"
                     /\ \A k \in 1..(j - 1) : SubSeq(s, k, k) # "\n"
         IN  <<SubSeq(s, 1, i - 1)>> \o SplitLines(SubSeq(s, i + 1, Len(s)))
    ELSE <<s>>

\* The three formatted cells of a result.
ExpectedCells(row) ==
    <<row.language.s, FmtPlain(row.depth), Fmt2f(row.peak_mb)>>

\* The width of column j: the largest of the header's length and the
\* lengths of the column's cells.
ColumnWidth(rs, j) ==
    LET lens == {Len(headers[j])} \cup {Len(ExpectedCells(rs[k])[j]) : k \in 1..Len(rs)}
    IN  CHOOSE w \in lens : \A x \in lens : w >= x

\* `line` is the three texts, each followed by `pad` up to its column's
\* width, with `sep` between the columns and nothing else.
LaidOut(line, texts, w, pad, sep) ==
    LET off(j) == IF j = 1 THEN 0
                  ELSE IF j = 2 THEN w[1] + 3
                  ELSE w[1] + w[2] + 6
    IN  /\ Len(line) = w[1] + w[2] + w[3] + 6
        /\ \A j \in 1..3 :
              /\ Len(texts[j]) <= w[j]
              /\ SubSeq(line, off(j) + 1, off(j) + Len(texts[j])) = texts[j]
              /\ \A q \in (Len(texts[j]) + 1)..w[j] :
                    SubSeq(line, off(j) + q, off(j) + q) = pad
              /\ j < 3 =>
                    SubSeq(line, off(j) + w[j] + 1, off(j) + w[j] + 3) = sep

\* C10: format_table renders three columns: a header row, a separator row and
\* one row per result in input order; a column's width is the maximum of its
\* header's length and its cells' lengths; cells are left-justified and padded
\* to the width and joined by " | "; the separator has a run of dashes of the
\* column's width per column, joined by "-+-"; all lines are equally long.
C10_TableLayout ==
    (tableCalls > 0 /\ table.err = "none") =>
        LET lines == SplitLines(table.out)
            w == [j \in 1..3 |-> ColumnWidth(rows, j)]
        IN  /\ Len(lines) = Len(rows) + 2
            /\ LaidOut(lines[1], headers, w, " ", " | ")
            /\ LaidOut(lines[2], <<"", "", "">>, w, "-", "-+-")
            /\ \A k \in 1..Len(rows) :
                  LaidOut(lines[k + 2], ExpectedCells(rows[k]), w, " ", " | ")
            /\ \A k \in 1..Len(lines) : Len(lines[k]) = Len(lines[1])

\* A table of two results, the second with every cell wider than its header
\* and than the first result's cell.
C10_Witness ==
    /\ tableCalls > 0
    /\ table.err = "none"
    /\ Len(rows) = 2
    /\ rows[1].language = Str("Go")
    /\ rows[2].language = Str("C++ unique_ptr")
    /\ Len(SplitLines(table.out)) = 4
    /\ SplitLines(table.out)[2] = "---------------+------+-------------"

-----------------------------------------------------------------------------
(* Properties of a session (Spec) *)

\* The k-th (depth, target) pair: outer over depths in the order given,
\* inner over targets in declaration order.
PairAt(k) ==
    [language |-> targets[((k - 1) % Len(targets)) + 1].name,
     depth |-> depths[((k - 1) \div Len(targets)) + 1]]

NumPairs == Len(depths) * Len(targets)

\* main has left the loop: it is about to print, has printed, or failed to.
LoopDone == pc = "render" \/ exit_code = ExitSuccess \/ error.phase = "render"

\* C1: one measurement request per (size, target) pair, outer over the sizes
\* in the order given, inner over the targets in declaration order; the
\* results are in that order, also when the list is handed to the renderer.
C1_ResultOrder ==
    /\ Len(requests) <= NumPairs
    /\ \A k \in 1..Len(requests) : requests[k] = PairAt(k)
    /\ Len(results) <= Len(requests)
    /\ \A k \in 1..Len(results) :
          /\ results[k].language = Str(PairAt(k).language)
          /\ results[k].depth = Num(PairAt(k).depth)
    /\ LoopDone => Len(requests) = NumPairs /\ Len(results) = NumPairs

\* A complete session over unsorted depths [16, 10] and two targets.
C1_Witness ==
    /\ exit_code = ExitSuccess
    /\ depths = <<16, 10>>
    /\ Len(targets) = 2
    /\ Len(results) = 4
    /\ Len(stdout) = 1

\* The helper of the latest request exited 0 and wrote nothing to the file.
HelperWroteNothing == helperLog.rc = 0 /\ helperLog.effect = "untouched"

\* C2: a helper that exits 0 without writing the result file makes
\* run_measurement fail with the "result file not written" error, and no
\* result is returned for the request.
C2_MissingResultFile ==
    HelperWroteNothing =>
        /\ error.kind = "RuntimeError: result file not written"
        /\ Len(results) < Len(requests)

\* A result has the required numeric field.
NumericPeak(r) ==
    "peak_mb" \in DOMAIN r /\ r.peak_mb.t \in {"number", "float"}

\* C3: the table is printed once and only after every request succeeded; a
\* build failure or a failed request (helper not started, non-zero exit,
\* file missing, result malformed) stops the session there: no further
\* request, no table, a non-zero exit; exit 0 only with the complete table.
C3_AllOrNothing ==
    /\ Len(stdout) <= 1
    /\ stdout # <<>> => exit_code = ExitSuccess
    /\ exit_code = ExitSuccess => Len(stdout) = 1 /\ Len(results) = NumPairs
    /\ error # NoError => exit_code = ExitFailure /\ stdout = <<>> /\ pc = "exited"
    /\ \A k \in 1..Len(results) :
          ~NumericPeak(results[k]) => Len(requests) = k

\* C4: a result file that is no single object, or an object without a numeric
\* peak_mb, makes the request fail: run_measurement returns no record without
\* a numeric peak_mb, and no request follows such a result.
C4_MalformedResult ==
    /\ \A k \in 1..Len(results) : NumericPeak(results[k])
    /\ (helperLog.rc = 0 /\ helperLog.effect = "wrote"
        /\ helperLog.content.json # "object")
          => error.phase = "measure" /\ Len(results) < Len(requests)

\* C5: every build command of the session's targets has completed with
\* status 0, once each, before the first measurement request, however many
\* sizes are measured; after a build failure no request is made and the
\* process exits non-zero.
C5_BuildsBeforeMeasurements ==
    /\ Len(built) <= Len(builds)
    /\ \A k \in 1..Len(built) : built[k] = builds[k]
    /\ requests # <<>> =>
          /\ built = builds
          /\ \A k \in 1..Len(BuildCommands) :
                (\E j \in 1..Len(targets) : targets[j].cwd = BuildCommands[k].cwd)
                   => Cardinality({i \in 1..Len(built) : built[i] = BuildCommands[k]}) = 1
    /\ (\E c \in children : c.kind = "build") => requests = <<>>
    /\ error.phase = "build" =>
          /\ requests = <<>>
          /\ exit_code = ExitFailure
          /\ stdout = <<>>

\* A complete session of two sizes over two targets, each with a build.
C5_Witness ==
    /\ exit_code = ExitSuccess
    /\ Len(built) = 2
    /\ Len(depths) = 2
    /\ Len(requests) = 4

\* C6 as stated: after a successful request its file is gone, the unlink
\* never fails the request, and the path of a request is one no other
\* request of the session has used.
C6_UniquePathPerSession ==
    /\ (error = NoError /\ pc # "helper") => DOMAIN disk = {}
    /\ error.kind # "FileNotFoundError: json_file"
    /\ pc = "helper" => json_file \notin usedPaths

\* C6, amended: after a successful request its file is gone, also when it
\* had been removed before the unlink, which never fails the request; the
\* path of a request in flight did not exist before the request created it
\* and is the only temporary file of the session that exists.
C6_TempFileRemoved ==
    /\ (error = NoError /\ pc # "helper") => DOMAIN disk = {}
    /\ error.kind # "FileNotFoundError: json_file"
    /\ helperLog.unlink # "none" => DOMAIN disk = {}
    /\ pc = "helper" => json_file \in TmpNames /\ DOMAIN disk = {json_file}

\* Two requests have succeeded, the second on the path of the first, and
\* its file was already gone when run_measurement unlinked it.
C6_Witness ==
    /\ error = NoError
    /\ Len(results) = 2
    /\ Cardinality(usedPaths) = 1
    /\ helperLog.unlink = "already gone"
    /\ DOMAIN disk = {}

\* The latest call of run_measurement has returned a result.
LastReturned == results # <<>> /\ Len(results) = Len(requests)

\* C8: the returned record is the object the helper wrote with language set
\* to the target's name and depth to the depth, whatever the helper wrote
\* under those names, and every other field as the helper wrote it.
C8_DecoratedResult ==
    LastReturned =>
        LET r == results[Len(results)]
            w == helperLog.content.fields
            req == requests[Len(requests)]
        IN  /\ helperLog.content.json = "object"
            /\ r.language = Str(req.language)
            /\ r.depth = Num(req.depth)
            /\ DOMAIN r = DOMAIN w \cup {"language", "depth"}
            /\ \A k \in DOMAIN w \ {"language", "depth"} : r[k] = w[k]

\* Rust at depth 16 with a helper object that has peak_mb 123.45, a further
\* field, and a language and a depth of its own.
C8_Witness ==
    /\ LastReturned
    /\ requests[Len(requests)] = [language |-> "Rust", depth |-> 16]
    /\ helperLog.content.json = "object"
    /\ "language" \in DOMAIN helperLog.content.fields
    /\ helperLog.content.fields.language = Str("bogus")
    /\ results[Len(results)] =
          [peak_mb |-> Float(123, 450), language |-> Str("Rust"),
           depth |-> Num(16), samples |-> Num(7)]

\* C9: at most one child process runs at any time; no child runs when main
\* is about to launch a helper or a build; the helper in flight is the one of
\* the latest request, with the one temporary file that awaits reading.
C9_StrictlySerial ==
    /\ Cardinality(children) <= 1
    /\ pc \in {"build", "launch", "render", "exited"} => children = {}
    /\ pc = "building" => \A c \in children : c.kind = "build"
    /\ pc = "helper" =>
          /\ \A c \in children : c.kind = "helper" /\ c.id = Len(requests)
          /\ Cardinality(children) = 1
    /\ error = NoError => Cardinality(DOMAIN disk) <= 1

\* The third request of a session is in flight, after two builds.
C9_Witness ==
    /\ pc = "helper"
    /\ Len(requests) = 3
    /\ Len(built) = 2
    /\ Cardinality(children) = 1

====
